---- MODULE Spec2Model ----
(***************************************************************************)
(* A model of poetry_tester.py: the scenario driver (main), the lifecycle  *)
(* adapter (new, add_source, add_dependency, build, publish, ...), the     *)
(* change recorder (_run) and the audit log.  The package manager, git and *)
(* the package index are external; they are modelled at their interface,   *)
(* and every invocation may fail.                                          *)
(***************************************************************************)
EXTENDS Integers, Sequences, FiniteSets, TLC

VARIABLES
    wt,           \* wt[p]: the files of project p's directory (working tree)
    repo,         \* repo[p]: what git init / git config have set up in p
    staged,       \* staged[p]: git's index of p (what "git add ." staged last)
    commits,      \* commits[p]: p's commit history, oldest first
    registry,     \* the artifacts published to the index at LOCAL_SOURCE_URL
    log,          \* the audit log (the records logger.info wrote), in order
    status,       \* "running", "done" (main returned) or "failed" (an exception left main)
    hist,         \* history: one entry per lifecycle action that was started
    tool_output,  \* what the external package manager prints on every invocation of this run
    query_failed  \* history: some "git diff --quiet" of this run ended in an error

vars == <<wt, repo, staged, commits, registry, log, status, hist, tool_output,
          query_failed>>

----------------------------------------------------------------------------
(* Bounds of the model.                                                    *)

\* the number of lifecycle actions of a run that calls the adapter freely
MaxOps == 4
\* the highest patch number a manifest version is bumped to
MaxPatch == 2
\* the number of updates a second caller makes during main's scenario
MaxMore == 1

----------------------------------------------------------------------------
(* Names fixed by the program.                                             *)

LORITO_PATH == "lorito"
GATITO_PATH == "gatito"
PERRITO_PATH == "perrito"
Projects == {LORITO_PATH, GATITO_PATH, PERRITO_PATH}

LOCAL_SOURCE_NAME == "local"
LOCAL_SOURCE_URL == "http://localhost/"

COMMON_FLAGS == <<"-vvv", "--no-cache", "--no-ansi">>

\* the sentinel outcome of an action that left the tree clean
NA == "N/A"

\* a source URL other than the local index (nothing is published there)
OTHER_URL == "http://elsewhere/"

\* the one package of the public index the scenario uses
REQUESTS == "requests"
PublicIndex == {[name |-> REQUESTS, version |-> 0, requires |-> {}]}

\* dependents before their dependencies
ChainOrder == <<GATITO_PATH, LORITO_PATH, REQUESTS>>

\* the dependencies a free run may ask a project to add or update
DepChoices(p) ==
    IF p = LORITO_PATH THEN {REQUESTS}
    ELSE IF p = GATITO_PATH THEN {REQUESTS, LORITO_PATH}
    ELSE {REQUESTS, LORITO_PATH, GATITO_PATH}

\* what the package manager prints in a run: nothing, stdout only, or both streams
OutputProfiles ==
    { [stdout |-> "", stderr |-> ""],
      [stdout |-> "out", stderr |-> ""],
      [stdout |-> "out", stderr |-> "err"] }

----------------------------------------------------------------------------
(* Files.  A file is <<>> when it does not exist and <<content>> when it   *)
(* does.  pyproject.toml holds the version (its patch number, 0.1.n), the  *)
(* sources <<name, url>> and the dependencies <<name, min patch, source>>; *)
(* poetry.lock holds the pinned <<package, patch>> pairs; dist holds the   *)
(* built artifacts.                                                        *)

EmptyTree == [pyproject |-> <<>>, lock |-> <<>>, gitignore |-> <<>>, dist |-> {}]

TextFiles == {"pyproject", "lock", "gitignore"}

Exists(tree) == tree.pyproject # <<>>

Manifest(tree) == tree.pyproject[1]

\* the ignore rule "dist" is in force
Ignores(tree) == tree.gitignore # <<>> /\ "dist" \in tree.gitignore[1]

\* what "git add ." stages of a working tree: every file that is not ignored
Snapshot(tree) == [tree EXCEPT !.dist = IF Ignores(tree) THEN {} ELSE tree.dist]

\* a file git tracks (it is in the index) differs in the working tree or is gone
TrackedDirty(tree, st) ==
    \/ \E f \in TextFiles : st[f] # <<>> /\ tree[f] # st[f]
    \/ st.dist # {} /\ Snapshot(tree).dist # st.dist

\* a file that is not ignored and that git does not track
HasUntracked(tree, st) ==
    \/ \E f \in TextFiles : st[f] = <<>> /\ tree[f] # <<>>
    \/ st.dist = {} /\ Snapshot(tree).dist # {}

HeadTree(cs) == IF cs = <<>> THEN EmptyTree ELSE cs[Len(cs)].tree

Max(S) == CHOOSE x \in S : \A y \in S : y <= x

----------------------------------------------------------------------------
(* The package index and the resolver, at their interface.  A constraint   *)
(* is the caret constraint "poetry add" writes: at least the patch number  *)
(* that was the latest when the dependency was added.                      *)

\* what the named source of a manifest serves
SourceContent(py, source) ==
    IF \E s \in py.sources : s[1] = source /\ s[2] = LOCAL_SOURCE_URL
    THEN registry ELSE {}

\* what a manifest can resolve from when no source is named
Visible(py) ==
    PublicIndex \cup
    (IF \E s \in py.sources : s[2] = LOCAL_SOURCE_URL THEN registry ELSE {})

LockOf(acc) == {<<a.name, a.version>> : a \in acc}

\* The resolutions of a manifest: the set holding the chosen artifacts, or
\* {} when some needed package has no version that satisfies its constraints.
\* A package of `fresh` is resolved to its latest version; any other keeps
\* the version `oldlock` pins when that still satisfies the constraints.
\* With `deep`, the dependencies of a fresh package are fresh too.
RECURSIVE ResolveFrom(_, _, _, _, _, _)
ResolveFrom(i, py, acc, oldlock, fresh, deep) ==
    IF i > Len(ChainOrder) THEN {acc}
    ELSE
      LET q == ChainOrder[i]
          direct == {d \in py.deps : d[1] = q}
          via == {r \in UNION {a.requires : a \in acc} : r[1] = q}
          mins == {d[2] : d \in direct} \cup {r[2] : r \in via}
          pinned == {d[3] : d \in direct} \ {""}
          pool == IF pinned # {}
                  THEN UNION {SourceContent(py, s) : s \in pinned}
                  ELSE Visible(py)
          cands == {a \in pool : a.name = q /\ \A m \in mins : a.version >= m}
          kept == {a \in cands : <<q, a.version>> \in oldlock}
          latest == CHOOSE a \in cands : \A b \in cands : b.version <= a.version
          pick == IF q \notin fresh /\ kept # {} THEN CHOOSE a \in kept : TRUE ELSE latest
      IN  IF direct = {} /\ via = {}
          THEN ResolveFrom(i + 1, py, acc, oldlock, fresh, deep)
          ELSE IF cands = {} THEN {}
          ELSE ResolveFrom(i + 1, py, acc \cup {pick}, oldlock,
                           IF deep /\ q \in fresh
                           THEN fresh \cup {r[1] : r \in pick.requires}
                           ELSE fresh,
                           deep)

Resolve(py, oldlock, fresh, deep) ==
    {LockOf(acc) : acc \in ResolveFrom(1, py, {}, oldlock, fresh, deep)}

OldLock(tree) == IF tree.lock = <<>> THEN {} ELSE tree.lock[1]

LockedNames(tree) == {l[1] : l \in OldLock(tree)}

----------------------------------------------------------------------------
(* The package manager's commands.  Each gives the set of results a        *)
(* successful run can leave: the project's files and the index.  The empty *)
(* set means the command cannot succeed in this state.                     *)

Result(tree) == [wt |-> tree, reg |-> registry]

\* poetry new <path>: the scaffold, version 0.1.0; refuses an existing project
PoetryNew(p) ==
    IF Exists(wt[p]) THEN {}
    ELSE {Result([wt[p] EXCEPT !.pyproject =
                     <<[version |-> 0, sources |-> {}, deps |-> {}]>>])}

\* poetry source add <name> <url>
PoetrySourceAdd(p, source_name, source_url) ==
    IF ~Exists(wt[p]) THEN {}
    ELSE LET py == Manifest(wt[p])
             srcs == {s \in py.sources : s[1] # source_name}
                         \cup {<<source_name, source_url>>}
         IN  {Result([wt[p] EXCEPT !.pyproject = <<[py EXCEPT !.sources = srcs]>>])}

\* poetry add --lock [--source <name>] <dependency>
PoetryAdd(p, dependency, source_name) ==
    IF ~Exists(wt[p]) THEN {}
    ELSE LET py == Manifest(wt[p])
             pool == IF source_name # "" THEN SourceContent(py, source_name)
                     ELSE Visible(py)
             cands == {a \in pool : a.name = dependency}
             newest == Max({a.version : a \in cands})
             py1 == [py EXCEPT !.deps = @ \cup {<<dependency, newest, source_name>>}]
         IN  IF \E d \in py.deps : d[1] = dependency THEN {Result(wt[p])}
             ELSE IF cands = {} THEN {}
             ELSE {Result([wt[p] EXCEPT !.pyproject = <<py1>>, !.lock = <<l>>]) :
                      l \in Resolve(py1, OldLock(wt[p]), {dependency}, FALSE)}

\* poetry build --format wheel: the artifact of the current version, in dist
PoetryBuild(p) ==
    IF ~Exists(wt[p]) THEN {}
    ELSE LET py == Manifest(wt[p])
             art == [name |-> p, version |-> py.version,
                     requires |-> {<<d[1], d[2]>> : d \in py.deps}]
             others == {a \in wt[p].dist : a.version # py.version}
         IN  {Result([wt[p] EXCEPT !.dist = others \cup {art}])}

\* poetry publish --repository <name>: uploads the artifacts of the current
\* version; there must be one, and the index refuses a version it already has
PoetryPublish(p, repository_name) ==
    IF ~Exists(wt[p]) THEN {}
    ELSE LET py == Manifest(wt[p])
             arts == {a \in wt[p].dist : a.version = py.version}
         IN  IF arts = {} THEN {}
             ELSE IF \E a \in registry : a.name = p /\ a.version = py.version THEN {}
             ELSE {[wt |-> wt[p], reg |-> registry \cup arts]}

\* poetry version patch
PoetryVersion(p, version) ==
    IF ~Exists(wt[p]) THEN {}
    ELSE LET py == Manifest(wt[p])
         IN  {Result([wt[p] EXCEPT !.pyproject = <<[py EXCEPT !.version = @ + 1]>>])}

\* poetry lock: writes the lock file; whether an existing pin is kept or
\* refreshed depends on the package manager's version
PoetryLock(p) ==
    IF ~Exists(wt[p]) THEN {}
    ELSE LET py == Manifest(wt[p])
         IN  {Result([wt[p] EXCEPT !.lock = <<l>>]) :
                 l \in Resolve(py, OldLock(wt[p]), {}, FALSE)
                         \cup Resolve(py, {}, {}, FALSE)}

\* poetry update --lock: every pin is resolved anew
PoetryUpdateAll(p) ==
    IF ~Exists(wt[p]) THEN {}
    ELSE LET py == Manifest(wt[p])
         IN  {Result([wt[p] EXCEPT !.lock = <<l>>]) : l \in Resolve(py, {}, {}, FALSE)}

\* poetry update --lock <dependency>: the named package is resolved anew;
\* whether its own dependencies are too is the resolver's choice
PoetryUpdate(p, dependency) ==
    IF ~Exists(wt[p]) THEN {}
    ELSE LET py == Manifest(wt[p])
             known == {d[1] : d \in py.deps} \cup LockedNames(wt[p])
         IN  IF dependency \notin known THEN {}
             ELSE {Result([wt[p] EXCEPT !.lock = <<l>>]) :
                      l \in Resolve(py, OldLock(wt[p]), {dependency}, FALSE)
                              \cup Resolve(py, OldLock(wt[p]), {dependency}, TRUE)}

\* poetry env remove --all: the environments live outside the project
PoetryEnvRemove(p) ==
    IF ~Exists(wt[p]) THEN {} ELSE {Result(wt[p])}

----------------------------------------------------------------------------
(* git, at its interface.                                                  *)

\* the exit status of "git diff --quiet": 1 when a tracked file differs from
\* the index, 0 otherwise; untracked files are not looked at
git_diff_quiet(tree, st) == IF TrackedDirty(tree, st) THEN 1 ELSE 0

\* an exit status of git diff that reports a failure, not a difference
GIT_ERROR == 128

\* "git commit" succeeds when the committer is known and something is staged
CanCommit(r, st, cs) == r.init /\ r.email /\ r.name /\ st # HeadTree(cs)

\* the short id of the n-th commit of project p
CommitId(p, n) == p \o "@" \o ToString(n)

NoRepo == [init |-> FALSE, email |-> FALSE, name |-> FALSE]

----------------------------------------------------------------------------
(* The change recorder.                                                    *)

RECURSIVE Join(_)
\* ' '.join(command)
Join(command) ==
    IF Len(command) = 0 THEN ""
    ELSE IF Len(command) = 1 THEN command[1]
    ELSE command[1] \o " " \o Join(Tail(command))

\* a variant of _get_commit_id: the id of the commit before HEAD
_get_commit_id_parent(p, cs) == CommitId(p, Len(cs) - 1)

\* _get_commit_id: git rev-parse --short HEAD
_get_commit_id(p, cs) == CommitId(p, Len(cs))

StreamRecord(p, joined_command, stream, content) ==
    [kind |-> stream, project |-> p, command |-> joined_command, text |-> content]

OutcomeRecord(p, joined_command, commit_id) ==
    [kind |-> "outcome", project |-> p, command |-> joined_command, text |-> commit_id]

\* _log_streams: one record per stream that is not empty, stdout first
_log_streams(lg, p, joined_command, completed_process) ==
    LET lg1 == IF completed_process.stdout # ""
               THEN Append(lg, StreamRecord(p, joined_command, "stdout",
                                            completed_process.stdout))
               ELSE lg
    IN  IF completed_process.stderr # ""
        THEN Append(lg1, StreamRecord(p, joined_command, "stderr",
                                      completed_process.stderr))
        ELSE lg1

\* a variant of LogOutcome: the record is written only when a commit was made
LogOutcomeOnlyOnCommit(lg, p, joined_command, commit_id) ==
    IF commit_id = NA THEN lg ELSE Append(lg, OutcomeRecord(p, joined_command, commit_id))

\* _run line 49, new line 106: the outcome record ends the action's log
LogOutcome(lg, p, joined_command, commit_id) ==
    Append(lg, OutcomeRecord(p, joined_command, commit_id))

\* a variant of TreeChanged: the test of the exit status is inverted
TreeChangedInverted(returncode) == returncode = 0

\* _run line 41: the tree counts as changed when git diff did not exit with 0
TreeChanged(returncode) == returncode # 0

\* a variant of StageAll: "git add -u", which stages tracked files only
StageUpdated(tree, st) ==
    [f \in DOMAIN st |->
        IF f \in TextFiles THEN (IF st[f] # <<>> THEN tree[f] ELSE st[f])
        ELSE (IF st[f] # {} THEN Snapshot(tree)[f] ELSE st[f])]

\* _run line 42: "git add ." makes the index the tree's files that are not ignored
StageAll(tree, st) == Snapshot(tree)

\* a variant of CommandFailed: the failure is caught, an outcome is logged,
\* and the exception is raised again
CommandFailedLogged(p, verb, args, command) ==
    /\ status' = "failed"
    /\ hist' = Append(hist, [verb |-> verb, project |-> p, args |-> args,
                             command |-> Join(command), failed |-> "command",
                             wt0 |-> wt[p], wt1 |-> wt[p], st0 |-> staged[p],
                             n0 |-> Len(commits[p]), l0 |-> Len(log),
                             reg0 |-> registry])
    /\ log' = Append(log, OutcomeRecord(p, Join(command), NA))
    /\ UNCHANGED <<wt, repo, staged, commits, registry, tool_output, query_failed>>

\* the failures git can have after the command of _run has succeeded
GitFailPoints == {"none", "add", "commit", "rev-parse"}

\* the history entry of a lifecycle action
HistEntry(verb, p, args, command, failed, tree) ==
    [verb |-> verb, project |-> p, args |-> args, command |-> Join(command),
     failed |-> failed,
     wt0 |-> wt[p], wt1 |-> tree, st0 |-> staged[p],
     n0 |-> Len(commits[p]), l0 |-> Len(log), reg0 |-> registry]

\* _run line 36, new line 90: the command exits non-zero (or cannot be
\* started), check=True raises and nothing catches the exception
CommandFailed(p, verb, args, command) ==
    /\ status' = "failed"
    /\ hist' = Append(hist, HistEntry(verb, p, args, command, "command", wt[p]))
    /\ UNCHANGED <<wt, repo, staged, commits, registry, log, tool_output, query_failed>>

\* _run(project_path, command); outs are the results the command can leave
_run(p, verb, args, command, outs) ==
    /\ status = "running"
    /\ \/ CommandFailed(p, verb, args, command)
       \/ \E out \in outs, diffErr \in BOOLEAN, fail \in GitFailPoints :
            LET tree == out.wt
                joined_command == Join(command)
                log1 == _log_streams(log, p, joined_command, tool_output)
                returncode == IF diffErr THEN GIT_ERROR
                              ELSE git_diff_quiet(tree, staged[p])
                changed == TreeChanged(returncode)
                st1 == StageAll(tree, staged[p])
                failed == IF ~changed THEN "none"
                          ELSE IF fail = "add" THEN "add"
                          ELSE IF fail = "commit" \/ ~CanCommit(repo[p], st1, commits[p])
                               THEN "commit"
                          ELSE fail
                cs1 == Append(commits[p], [message |-> joined_command, tree |-> st1])
                commit_id == IF changed THEN _get_commit_id(p, cs1) ELSE NA
            IN  /\ ~changed => fail = "none"
                /\ wt' = [wt EXCEPT ![p] = tree]
                /\ registry' = out.reg
                /\ staged' = [staged EXCEPT ![p] =
                                 IF changed /\ failed # "add" THEN st1 ELSE @]
                /\ commits' = [commits EXCEPT ![p] =
                                 IF changed /\ failed \in {"none", "rev-parse"}
                                 THEN cs1 ELSE @]
                /\ log' = IF failed = "none"
                          THEN LogOutcome(log1, p, joined_command, commit_id)
                          ELSE log1
                /\ status' = IF failed = "none" THEN "running" ELSE "failed"
                /\ hist' = Append(hist, HistEntry(verb, p, args, command, failed, tree))
                /\ query_failed' = (query_failed \/ diffErr)
                /\ UNCHANGED <<repo, tool_output>>

----------------------------------------------------------------------------
(* The lifecycle adapter.                                                  *)

\* add_dependency lines 63-66
source_args(source_name) ==
    IF source_name # "" THEN <<"--source", source_name>> ELSE <<>>

add_dependency(p, dependency, source_name) ==
    _run(p, "add_dependency", <<dependency, source_name>>,
         <<"poetry", "add">> \o COMMON_FLAGS \o <<"--lock">>
             \o source_args(source_name) \o <<dependency>>,
         PoetryAdd(p, dependency, source_name))

add_source(p, source_name, source_url) ==
    _run(p, "add_source", <<source_name, source_url>>,
         <<"poetry", "source", "add">> \o COMMON_FLAGS \o <<source_name, source_url>>,
         PoetrySourceAdd(p, source_name, source_url))

build(p) ==
    _run(p, "build", <<>>,
         <<"poetry", "build">> \o COMMON_FLAGS \o <<"--format", "wheel">>,
         PoetryBuild(p))

bump_version(p, version) ==
    /\ Exists(wt[p]) => Manifest(wt[p]).version < MaxPatch
    /\ _run(p, "bump_version", <<version>>,
            <<"poetry", "version">> \o COMMON_FLAGS \o <<version>>,
            PoetryVersion(p, version))

lock(p) ==
    _run(p, "lock", <<>>, <<"poetry", "lock">> \o COMMON_FLAGS, PoetryLock(p))

publish(p, repository_name) ==
    _run(p, "publish", <<repository_name>>,
         <<"poetry", "publish">> \o COMMON_FLAGS \o <<"--repository", repository_name>>,
         PoetryPublish(p, repository_name))

remove_environment(p) ==
    _run(p, "remove_environment", <<>>,
         <<"poetry", "env", "remove">> \o COMMON_FLAGS \o <<"--all">>,
         PoetryEnvRemove(p))

update_all_dependencies(p) ==
    _run(p, "update_all_dependencies", <<>>,
         <<"poetry", "update">> \o COMMON_FLAGS \o <<"--lock">>,
         PoetryUpdateAll(p))

\* a variant of update_dependency whose command leaves the dependency out,
\* as the command of update_all_dependencies does
update_dependency_unnamed(p, dependency) ==
    _run(p, "update_dependency", <<dependency>>,
         <<"poetry", "update">> \o COMMON_FLAGS \o <<"--lock">>,
         PoetryUpdateAll(p))

update_dependency(p, dependency) ==
    _run(p, "update_dependency", <<dependency>>,
         <<"poetry", "update">> \o COMMON_FLAGS \o <<"--lock", dependency>>,
         PoetryUpdate(p, dependency))

\* a variant of remove_lock that removes the file through _run
remove_lock_recorded(p) ==
    _run(p, "remove_lock", <<>>, <<"rm", "poetry.lock">>,
         IF wt[p].lock = <<>> THEN {} ELSE {Result([wt[p] EXCEPT !.lock = <<>>])})

\* remove_lock: the note is logged, then os.remove raises when there is no lock
remove_lock(p) ==
    /\ status = "running"
    /\ log' = Append(log, [kind |-> "note", project |-> p, command |-> "",
                           text |-> "removing poetry.lock"])
    /\ wt' = [wt EXCEPT ![p].lock = <<>>]
    /\ status' = IF wt[p].lock = <<>> THEN "failed" ELSE "running"
    /\ hist' = Append(hist, HistEntry("remove_lock", p, <<>>, <<>>,
                                      IF wt[p].lock = <<>> THEN "remove" ELSE "none",
                                      [wt[p] EXCEPT !.lock = <<>>]))
    /\ UNCHANGED <<repo, staged, commits, registry, tool_output, query_failed>>

\* a variant of GitIgnoreRule: another directory is ignored
GitIgnoreRuleBuild == {"build"}

\* the failures git can have after the command of new has succeeded
NewFailPoints ==
    {"none", "init", "config.email", "config.name", "add", "commit", "rev-parse"}

\* the ignore rule new writes
GitIgnoreRule == {"dist"}

new(p) ==
    LET command == <<"poetry", "new">> \o COMMON_FLAGS \o <<p>>
        joined_command == Join(command)
    IN
    /\ status = "running"
    /\ \/ CommandFailed(p, "new", <<>>, command)
       \/ \E out \in PoetryNew(p), fail \in NewFailPoints :
            LET log1 == _log_streams(log, p, joined_command, tool_output)
                repo1 == [init  |-> fail # "init",
                          email |-> fail \notin {"init", "config.email"},
                          name  |-> fail \notin {"init", "config.email", "config.name"}]
                configured == repo1.name
                tree == IF configured
                        THEN [out.wt EXCEPT !.gitignore = <<GitIgnoreRule>>]
                        ELSE out.wt
                st1 == Snapshot(tree)
                failed == IF ~configured \/ fail = "add" THEN fail
                          ELSE IF fail = "commit" \/ ~CanCommit(repo1, st1, commits[p])
                               THEN "commit"
                          ELSE fail
                cs1 == Append(commits[p], [message |-> joined_command, tree |-> st1])
                commit_id == _get_commit_id(p, cs1)
            IN  /\ wt' = [wt EXCEPT ![p] = tree]
                /\ registry' = out.reg
                /\ repo' = [repo EXCEPT ![p] = repo1]
                /\ staged' = [staged EXCEPT ![p] =
                                 IF configured /\ failed # "add" THEN st1 ELSE @]
                /\ commits' = [commits EXCEPT ![p] =
                                 IF failed \in {"none", "rev-parse"} THEN cs1 ELSE @]
                /\ log' = IF failed = "none"
                          THEN LogOutcome(log1, p, joined_command, commit_id)
                          ELSE log1
                /\ status' = IF failed = "none" THEN "running" ELSE "failed"
                /\ hist' = Append(hist, HistEntry("new", p, <<>>, command, failed, tree))
                /\ UNCHANGED <<tool_output, query_failed>>

----------------------------------------------------------------------------
(* The scenario driver.                                                    *)

Do(verb, p, args) == [verb |-> verb, project |-> p, args |-> args]

\* the calls of main, lines 152-177, in order
MainCalls ==
    << Do("new", LORITO_PATH, <<>>),
       Do("add_source", LORITO_PATH, <<LOCAL_SOURCE_NAME, LOCAL_SOURCE_URL>>),
       Do("new", GATITO_PATH, <<>>),
       Do("add_source", GATITO_PATH, <<LOCAL_SOURCE_NAME, LOCAL_SOURCE_URL>>),
       Do("new", PERRITO_PATH, <<>>),
       Do("add_source", PERRITO_PATH, <<LOCAL_SOURCE_NAME, LOCAL_SOURCE_URL>>),
       Do("add_dependency", LORITO_PATH, <<REQUESTS, "">>),
       Do("build", LORITO_PATH, <<>>),
       Do("publish", LORITO_PATH, <<LOCAL_SOURCE_NAME>>),
       Do("add_dependency", GATITO_PATH, <<LORITO_PATH, LOCAL_SOURCE_NAME>>),
       Do("build", GATITO_PATH, <<>>),
       Do("publish", GATITO_PATH, <<LOCAL_SOURCE_NAME>>),
       Do("add_dependency", PERRITO_PATH, <<GATITO_PATH, LOCAL_SOURCE_NAME>>),
       Do("bump_version", LORITO_PATH, <<"patch">>),
       Do("build", LORITO_PATH, <<>>),
       Do("publish", LORITO_PATH, <<LOCAL_SOURCE_NAME>>),
       Do("bump_version", GATITO_PATH, <<"patch">>),
       Do("update_dependency", GATITO_PATH, <<LORITO_PATH>>),
       Do("build", GATITO_PATH, <<>>),
       Do("publish", GATITO_PATH, <<LOCAL_SOURCE_NAME>>),
       Do("update_dependency", PERRITO_PATH, <<GATITO_PATH>>) >>

Swap(s, i, j) ==
    [k \in 1..Len(s) |-> IF k = i THEN s[j] ELSE IF k = j THEN s[i] ELSE s[k]]

\* variants of the scenario, each with two calls of main exchanged:
\* the second publish of lorito with the second publish of gatito
ScenarioGatitoRepublishedFirst == Swap(MainCalls, 16, 20)
\* the last publish of gatito with the update of perrito
ScenarioUpdateBeforePublish == Swap(MainCalls, 20, 21)
\* add_source of gatito with add_dependency of gatito
ScenarioSourceAfterDependency == Swap(MainCalls, 4, 10)
\* the bump of lorito with the build that follows it
ScenarioBuildBeforeBump == Swap(MainCalls, 14, 15)
\* the first publish of lorito with add_dependency of gatito
ScenarioDependencyBeforePublish == Swap(MainCalls, 9, 10)

\* the second publish of lorito with the update of gatito
ScenarioUpdateBeforeRepublish == Swap(MainCalls, 16, 18)

\* the sequence of lifecycle actions main executes
Scenario == MainCalls

\* the number of calls of the scenario among the actions from the i-th on,
\* added to n; an action that is not the scenario's next call is another
\* caller's
RECURSIVE PositionFrom(_, _)
PositionFrom(i, n) ==
    IF i > Len(hist) THEN n
    ELSE IF /\ n < Len(Scenario)
            /\ hist[i].verb = Scenario[n + 1].verb
            /\ hist[i].project = Scenario[n + 1].project
            /\ hist[i].args = Scenario[n + 1].args
         THEN PositionFrom(i + 1, n + 1)
         ELSE PositionFrom(i + 1, n)

\* the number of calls main has made
Position == PositionFrom(1, 0)

\* the step main is about to take, when one is left
AtStep(verb) == Position < Len(Scenario) /\ Scenario[Position + 1].verb = verb
Step == Scenario[Position + 1]

MainNew == AtStep("new") /\ new(Step.project)
MainAddSource == AtStep("add_source") /\ add_source(Step.project, Step.args[1], Step.args[2])
MainAddDependency ==
    AtStep("add_dependency") /\ add_dependency(Step.project, Step.args[1], Step.args[2])
MainBuild == AtStep("build") /\ build(Step.project)
MainPublish == AtStep("publish") /\ publish(Step.project, Step.args[1])
MainBumpVersion == AtStep("bump_version") /\ bump_version(Step.project, Step.args[1])
MainUpdateDependency ==
    AtStep("update_dependency") /\ update_dependency(Step.project, Step.args[1])

\* main returns: the process exits with status 0
MainReturn ==
    /\ status = "running"
    /\ Position = Len(Scenario)
    /\ status' = "done"
    /\ UNCHANGED <<wt, repo, staged, commits, registry, log, hist, tool_output,
                   query_failed>>

Init ==
    /\ wt = [p \in Projects |-> EmptyTree]
    /\ repo = [p \in Projects |-> NoRepo]
    /\ staged = [p \in Projects |-> EmptyTree]
    /\ commits = [p \in Projects |-> <<>>]
    /\ registry = {}
    /\ log = <<>>
    /\ status = "running"
    /\ hist = <<>>
    /\ tool_output \in OutputProfiles
    /\ query_failed = FALSE

Next ==
    \/ MainNew
    \/ MainAddSource
    \/ MainAddDependency
    \/ MainBuild
    \/ MainPublish
    \/ MainBumpVersion
    \/ MainUpdateDependency
    \/ MainReturn

\* main's scenario
Spec == Init /\ [][Next]_vars

----------------------------------------------------------------------------
(* A caller that uses the adapter freely: any lifecycle action, on any     *)
(* project, in any order, MaxOps actions at most.                          *)

\* the projects a free run works on
CallProjects == {LORITO_PATH}

More == Len(hist) < MaxOps

CallNew == More /\ \E p \in CallProjects : new(p)
CallAddSource ==
    More /\ \E p \in CallProjects, u \in {LOCAL_SOURCE_URL, OTHER_URL} :
                add_source(p, LOCAL_SOURCE_NAME, u)
CallAddDependency ==
    More /\ \E p \in CallProjects : \E d \in DepChoices(p), s \in {"", LOCAL_SOURCE_NAME} :
                add_dependency(p, d, s)
CallBuild == More /\ \E p \in CallProjects : build(p)
CallPublish == More /\ \E p \in CallProjects : publish(p, LOCAL_SOURCE_NAME)
CallBumpVersion == More /\ \E p \in CallProjects : bump_version(p, "patch")
CallUpdateDependency ==
    More /\ \E p \in CallProjects : \E d \in DepChoices(p) : update_dependency(p, d)
CallUpdateAll == More /\ \E p \in CallProjects : update_all_dependencies(p)
CallLock == More /\ \E p \in CallProjects : lock(p)
CallRemoveLock == More /\ \E p \in CallProjects : remove_lock(p)
CallRemoveEnvironment == More /\ \E p \in CallProjects : remove_environment(p)

NextCalls ==
    \/ CallNew
    \/ CallAddSource
    \/ CallAddDependency
    \/ CallBuild
    \/ CallPublish
    \/ CallBumpVersion
    \/ CallUpdateDependency
    \/ CallUpdateAll
    \/ CallLock
    \/ CallRemoveLock
    \/ CallRemoveEnvironment

SpecCalls == Init /\ [][NextCalls]_vars

----------------------------------------------------------------------------
(* Main's scenario with a second caller of the adapter, which between two  *)
(* calls of main updates one dependency of one project, MaxMore times at   *)
(* most.                                                                   *)

\* the projects the second caller works on: the one in the middle of the
\* chain, which has a dependency of its own and one it gets through it
MoreProjects == {GATITO_PATH}

MoreUpdateDependency ==
    /\ Len(hist) - Position < MaxMore
    /\ \E p \in MoreProjects : \E d \in DepChoices(p) : update_dependency(p, d)

NextMore ==
    \/ MainNew
    \/ MainAddSource
    \/ MainAddDependency
    \/ MainBuild
    \/ MainPublish
    \/ MainBumpVersion
    \/ MainUpdateDependency
    \/ MainReturn
    \/ MoreUpdateDependency

SpecMore == Init /\ [][NextMore]_vars

----------------------------------------------------------------------------
(* What the claims speak of.                                               *)

Started == hist # <<>>
Last == hist[Len(hist)]

\* the last action went through _run
ThroughRun(h) == h.verb \notin {"new", "remove_lock"}

\* the last action ran to completion
Completed(h) == h.failed = "none"

\* the records the last action appended to the log
Appended(h) == {i \in (h.l0 + 1)..Len(log) : TRUE}
OutcomesAppended(h) == {i \in Appended(h) : log[i].kind = "outcome"}

\* the project had no uncommitted change of any kind when the action started
CleanAtStart(h) == Snapshot(h.wt0) = h.st0

\* C1: a lifecycle action other than remove_lock that runs to completion
\* appends exactly one outcome record, for its project and command, whose
\* outcome is N/A or the id of the project's head commit; it is the last
\* record of the log.
C1_ExactlyOneOutcomeRecord ==
    (Started /\ Last.verb # "remove_lock" /\ Completed(Last)) =>
        /\ Cardinality(OutcomesAppended(Last)) = 1
        /\ Len(log) \in OutcomesAppended(Last)
        /\ log[Len(log)].project = Last.project
        /\ log[Len(log)].command = Last.command
        /\ log[Len(log)].text \in
               {NA, CommitId(Last.project, Len(commits[Last.project]))}

\* a no-op build that also logged both output streams and then its outcome
C1_Witness ==
    /\ Started /\ Last.verb = "build" /\ Completed(Last)
    /\ Len(log) = Last.l0 + 3
    /\ log[Len(log)].text = NA

\* C2: a _run action that starts on a project with nothing uncommitted and
\* whose command leaves the project's files and the index as they were
\* creates no commit; unless an external invocation fails it completes, and
\* the outcome it records is N/A.
C2_NoOpRecordsNA ==
    (Started /\ ThroughRun(Last) /\ CleanAtStart(Last)
         /\ Last.wt1 = Last.wt0 /\ registry = Last.reg0 /\ Exists(Last.wt0)) =>
        /\ Len(commits[Last.project]) = Last.n0
        /\ (Last.failed # "command" /\ ~query_failed) =>
               /\ Completed(Last)
               /\ log[Len(log)].kind = "outcome"
               /\ log[Len(log)].text = NA

\* add_source of a name and URL that the preceding add_source registered
C2_Witness ==
    /\ Len(hist) >= 2
    /\ Last.verb = "add_source" /\ Completed(Last)
    /\ hist[Len(hist) - 1].verb = "add_source"
    /\ hist[Len(hist) - 1].args = Last.args
    /\ Completed(hist[Len(hist) - 1])
    /\ Last.wt1 = Last.wt0
    /\ log[Len(log)].text = NA

\* C3: whenever the tree has uncommitted changes of any kind after the
\* command of a _run action (a tracked file modified or deleted, or a new
\* untracked file that is not ignored), the completed action has made exactly
\* one commit, with the joined command as its message, and recorded its id.
C3_AnyChangeIsCommitted ==
    (Started /\ ThroughRun(Last) /\ Completed(Last)
         /\ Snapshot(Last.wt1) # Last.st0) =>
        /\ Len(commits[Last.project]) = Last.n0 + 1
        /\ commits[Last.project][Last.n0 + 1].message = Last.command
        /\ log[Len(log)].text = CommitId(Last.project, Last.n0 + 1)
        /\ log[Len(log)].text # NA

\* C4: when an external invocation of a lifecycle action fails (the package
\* manager's command or any git command, the status query included), the run
\* is aborted: the failed action is the last one started and the run has failed.
C4_FailFast ==
    /\ \A i \in 1..Len(hist) : hist[i].failed # "none" => i = Len(hist)
    /\ (query_failed \/ (Started /\ Last.failed # "none")) => status = "failed"

IsPublishOf(p, h) == h.verb = "publish" /\ h.project = p
IsCompletedPublishOf(p, h) == IsPublishOf(p, h) /\ Completed(h)

\* C5: whenever a publish of gatito is attempted, a publish of lorito has
\* completed before it, the publishes of lorito before it all completed, and
\* the index holds lorito at the version of lorito's manifest.
C5_LoritoPublishedBeforeGatito ==
    \A i \in 1..Len(hist) :
        IsPublishOf(GATITO_PATH, hist[i]) =>
            /\ \E j \in 1..(i - 1) : IsCompletedPublishOf(LORITO_PATH, hist[j])
            /\ \A j \in 1..(i - 1) :
                   IsPublishOf(LORITO_PATH, hist[j]) => Completed(hist[j])
            /\ (i = Len(hist)) =>
                   \E a \in hist[i].reg0 :
                       /\ a.name = LORITO_PATH
                       /\ a.version = Manifest(wt[LORITO_PATH]).version

\* the second publish of gatito is attempted, lorito being at 0.1.1
C5_Witness ==
    /\ Started /\ IsPublishOf(GATITO_PATH, Last)
    /\ Manifest(wt[LORITO_PATH]).version = 1
    /\ Manifest(wt[GATITO_PATH]).version = 1

\* the patch number poetry new gives a manifest (0.1.0)
InitialVersion(p) == 0

BumpsOf(p) == {i \in 1..Len(hist) : hist[i].verb = "bump_version" /\ hist[i].project = p}

Pins(p) == OldLock(wt[p])

Published(name, version) == \E a \in registry : a.name = name /\ a.version = version

HasOutput == tool_output.stdout # "" \/ tool_output.stderr # ""

\* the command was started: poetry new needs no project directory, the
\* commands of _run run inside it
CommandRan(h) == h.verb = "new" \/ Exists(h.wt0)

\* C7: when the command of a lifecycle action exits non-zero, what it printed
\* on stdout and stderr is in the audit log when the run ends.
C7_FailureOutputLogged ==
    (Started /\ Last.failed = "command" /\ CommandRan(Last) /\ HasOutput) =>
        \E i \in Appended(Last) :
            /\ log[i].kind \in {"stdout", "stderr"}
            /\ log[i].command = Last.command

IsCompleted(verb, p, h) == h.verb = verb /\ h.project = p /\ Completed(h)

UsesLocal(h) ==
    \/ h.verb = "publish" /\ h.args[1] = LOCAL_SOURCE_NAME
    \/ h.verb = "add_dependency" /\ h.args[2] = LOCAL_SOURCE_NAME

AfterRegistration ==
    {"add_dependency", "build", "publish", "bump_version", "update_dependency"}

\* C8: in main's scenario no action targets a project before its new has
\* completed; the action after new is add_source, which runs once per project
\* at most (once when main returns); every later action of the project is one
\* of add_dependency, build, publish, bump_version and update_dependency; and
\* a publish to local or an add_dependency from local finds the source local
\* registered in the project's manifest.
C8_ProjectStateMachine ==
    /\ \A i \in 1..Len(hist) :
         LET h == hist[i]
             before == {j \in 1..(i - 1) : hist[j].project = h.project}
         IN  /\ h.verb = "new" <=> before = {}
             /\ h.verb # "new" =>
                    \E j \in before : IsCompleted("new", h.project, hist[j])
             /\ h.verb = "add_source" <=> Cardinality(before) = 1
             /\ Cardinality(before) >= 2 => h.verb \in AfterRegistration
             /\ UsesLocal(h) =>
                    /\ \E j \in before : /\ IsCompleted("add_source", h.project, hist[j])
                                         /\ hist[j].args[1] = LOCAL_SOURCE_NAME
                    /\ \E src \in Manifest(h.wt0).sources : src[1] = LOCAL_SOURCE_NAME
    /\ status = "done" =>
         \A p \in Projects :
             Cardinality({i \in 1..Len(hist) :
                             IsCompleted("add_source", p, hist[i])}) = 1

\* main has returned, every project created and registered
C8_Witness ==
    /\ status = "done"
    /\ \A p \in Projects :
          \E src \in Manifest(wt[p]).sources : src = <<LOCAL_SOURCE_NAME, LOCAL_SOURCE_URL>>

VersionAt(h) == Manifest(h.wt0).version

\* C9: in main's scenario every publish of a project follows a completed
\* build of that project with no bump_version of it in between, the artifact
\* of the manifest's version is in dist, and no two publishes of a project
\* are of the same version.
C9_PublishFollowsBuild ==
    \A i \in 1..Len(hist) :
        LET h == hist[i] IN
        h.verb = "publish" =>
            /\ \E j \in 1..(i - 1) :
                  /\ IsCompleted("build", h.project, hist[j])
                  /\ \A k \in (j + 1)..(i - 1) :
                         ~(hist[k].verb = "bump_version" /\ hist[k].project = h.project)
            /\ \E a \in h.wt0.dist : a.name = h.project /\ a.version = VersionAt(h)
            /\ \A j \in 1..(i - 1) :
                  (hist[j].verb = "publish" /\ hist[j].project = h.project)
                      => VersionAt(hist[j]) # VersionAt(h)

\* lorito is published a second time, at 0.1.1
C9_Witness ==
    /\ Started /\ IsCompleted("publish", LORITO_PATH, Last)
    /\ VersionAt(Last) = 1
    /\ Published(LORITO_PATH, 0) /\ Published(LORITO_PATH, 1)

\* C10: in main's scenario an add_dependency on a package of the chain from
\* the source local runs only after a publish of that package to local has
\* completed, and finds the package in the index.
C10_DependencyAfterPublish ==
    \A i \in 1..Len(hist) :
        LET h == hist[i] IN
        (h.verb = "add_dependency" /\ h.args[1] \in Projects) =>
            /\ h.args[2] = LOCAL_SOURCE_NAME
            /\ \E j \in 1..(i - 1) :
                  /\ IsCompleted("publish", h.args[1], hist[j])
                  /\ hist[j].args[1] = h.args[2]
            /\ \E a \in h.reg0 : a.name = h.args[1]

\* perrito has added gatito from local
C10_Witness ==
    /\ Started /\ IsCompleted("add_dependency", PERRITO_PATH, Last)
    /\ Last.args = <<GATITO_PATH, LOCAL_SOURCE_NAME>>
    /\ <<GATITO_PATH, 0>> \in Pins(PERRITO_PATH)

----------------------------------------------------------------------------
(* update_dependency and the pins it leaves alone.                         *)

\* the pins a lock holds for a package: one at most
PinOf(tree, n) == {l \in OldLock(tree) : l[1] = n}

\* the packages some published version of n requires
Requires(n) ==
    {r[1] : r \in UNION {a.requires : a \in {b \in registry \cup PublicIndex : b.name = n}}}

\* the packages n depends on, directly or through others
DependenciesOf(n) ==
    LET d1 == Requires(n)
        d2 == d1 \cup UNION {Requires(m) : m \in d1}
    IN  d2 \cup UNION {Requires(m) : m \in d2}

\* the command of the last action ran and was an update of one dependency
UpdatedOne == Started /\ Last.verb = "update_dependency" /\ Last.failed # "command"

----------------------------------------------------------------------------
(* remove_lock.                                                            *)

\* the step is a call of remove_lock
RemoveLockStep ==
    Len(hist') = Len(hist) + 1 /\ hist'[Len(hist')].verb = "remove_lock"

\* C12: remove_lock bypasses the change recorder: it creates no commit,
\* stages nothing and appends no outcome record (what it logs is a note),
\* it leaves the project's commits, the index and every other project as
\* they were, and of the project's files it removes poetry.lock only; when
\* the project has no poetry.lock it fails and the run is aborted.
C12_RemoveLockBypassesRecorder ==
    [][RemoveLockStep =>
          LET p == hist'[Len(hist')].project
          IN  /\ commits' = commits /\ staged' = staged /\ repo' = repo
              /\ registry' = registry
              /\ \A q \in Projects \ {p} : wt'[q] = wt[q]
              /\ wt'[p] = [wt[p] EXCEPT !.lock = <<>>]
              /\ SubSeq(log', 1, Len(log)) = log
              /\ \A i \in (Len(log) + 1)..Len(log') : log'[i].kind # "outcome"
              /\ status' = IF wt[p].lock = <<>> THEN "failed" ELSE "running"
      ]_vars

\* remove_lock has removed a committed poetry.lock: no commit, no outcome
C12_Witness ==
    /\ Started /\ Last.verb = "remove_lock" /\ Completed(Last)
    /\ Last.st0.lock # <<>> /\ wt[Last.project].lock = <<>>
    /\ Len(commits[Last.project]) = Last.n0
    /\ OutcomesAppended(Last) = {}

----------------------------------------------------------------------------
(* Phase 2: gatito picks up the bumped lorito.                             *)

IsUpdateOfLoritoInGatito(h) ==
    h.verb = "update_dependency" /\ h.project = GATITO_PATH /\ h.args = <<LORITO_PATH>>

PostBump(p) == InitialVersion(p) + 1

\* C13: in main's scenario update_dependency(gatito, 'lorito') runs only
\* after a publish of lorito at its post-bump version has completed and
\* finds that version in the index; gatito is then bumped and has been built
\* and published at its initial version only; once the command has run,
\* gatito's lock pins lorito at the post-bump version, 0.1.1; and every
\* build or publish of the bumped gatito comes after a completed update and
\* starts from a lock with that pin.
C13_GatitoRelocksBumpedLorito ==
    \A i \in 1..Len(hist) :
        LET h == hist[i] IN
        /\ IsUpdateOfLoritoInGatito(h) =>
              /\ \E j \in 1..(i - 1) :
                    /\ IsCompleted("publish", LORITO_PATH, hist[j])
                    /\ VersionAt(hist[j]) = PostBump(LORITO_PATH)
              /\ \E a \in h.reg0 :
                    a.name = LORITO_PATH /\ a.version = PostBump(LORITO_PATH)
              /\ VersionAt(h) = PostBump(GATITO_PATH)
              /\ \A k \in 1..(i - 1) :
                    (hist[k].project = GATITO_PATH /\ hist[k].verb \in {"build", "publish"})
                        => VersionAt(hist[k]) = InitialVersion(GATITO_PATH)
              /\ PinOf(h.wt0, LORITO_PATH) = {<<LORITO_PATH, InitialVersion(LORITO_PATH)>>}
              /\ (h.failed # "command") =>
                    PinOf(h.wt1, LORITO_PATH) = {<<LORITO_PATH, PostBump(LORITO_PATH)>>}
        /\ (/\ h.project = GATITO_PATH /\ h.verb \in {"build", "publish"}
            /\ VersionAt(h) = PostBump(GATITO_PATH)) =>
              /\ \E j \in 1..(i - 1) :
                    IsUpdateOfLoritoInGatito(hist[j]) /\ Completed(hist[j])
              /\ PinOf(h.wt0, LORITO_PATH) = {<<LORITO_PATH, PostBump(LORITO_PATH)>>}

\* the update has completed: gatito's lock pins lorito 0.1.1, which is the
\* version of lorito's manifest and is published
C13_Witness ==
    /\ Started /\ IsUpdateOfLoritoInGatito(Last) /\ Completed(Last)
    /\ <<LORITO_PATH, 1>> \in Pins(GATITO_PATH)
    /\ Manifest(wt[LORITO_PATH]).version = 1
    /\ Published(LORITO_PATH, 1) /\ ~Published(GATITO_PATH, 1)

----------------------------------------------------------------------------
(* What a commit of _run holds.                                            *)

\* the last action created a commit; the commit
Committed(h) == Len(commits[h.project]) = h.n0 + 1
CommitOf(h) == commits[h.project][h.n0 + 1]

\* a committed tree holds every file of a working tree that is not ignored
HoldsAllOf(committed, tree) ==
    /\ \A f \in TextFiles : committed[f] = tree[f]
    /\ committed.dist = IF Ignores(tree) THEN {} ELSE tree.dist

\* when the action started, a tracked file was modified or deleted and not
\* committed: what an earlier step left behind
ResidueAtStart(h) == TrackedDirty(h.wt0, h.st0)

----------------------------------------------------------------------------
(* Failure.                                                                *)

\* the step is a lifecycle action that fails
FailingStep ==
    Len(hist') = Len(hist) + 1 /\ hist'[Len(hist')].failed # "none"

IsPrefix(s, t) == Len(s) <= Len(t) /\ SubSeq(t, 1, Len(s)) = s

\* C15: a failing lifecycle action aborts the run and undoes nothing: every
\* commit and every log record made before it is still there, in place, no
\* published artifact is withdrawn, every other project is as it was and no
\* project directory is removed; the failing action appends no outcome
\* record, and when it is the package manager's command that fails it
\* creates no commit either.
C15_NoRollback ==
    [][FailingStep =>
          LET h == hist'[Len(hist')]
              p == h.project
          IN  /\ status' = "failed"
              /\ \A q \in Projects :
                     /\ IsPrefix(commits[q], commits'[q])
                     /\ Exists(wt[q]) => Exists(wt'[q])
              /\ \A q \in Projects \ {p} :
                     /\ wt'[q] = wt[q] /\ staged'[q] = staged[q]
                     /\ commits'[q] = commits[q] /\ repo'[q] = repo[q]
              /\ IsPrefix(log, log')
              /\ registry \subseteq registry'
              /\ \A i \in (Len(log) + 1)..Len(log') : log'[i].kind # "outcome"
              /\ (h.failed = "command") => commits' = commits
      ]_vars

\* a command of gatito has failed: the commits of lorito and gatito and the
\* log records made before are there
C15_Witness ==
    /\ Started /\ status = "failed" /\ Last.failed = "command"
    /\ Last.project = GATITO_PATH
    /\ Len(commits[LORITO_PATH]) >= 2 /\ Len(commits[GATITO_PATH]) >= 2
    /\ Len(commits[GATITO_PATH]) = Last.n0
    /\ Len(log) = Last.l0 /\ Last.l0 > 0
    /\ Exists(wt[PERRITO_PATH])

----------------------------------------------------------------------------
(* new.                                                                    *)

\* C16: when new(P) has completed, P has exactly one commit, which holds the
\* scaffold and the ignore rule dist; the repository is initialised with the
\* committer's email and name; nothing of the project is uncommitted; and
\* the last log record is the outcome of new with that commit's id, not N/A.
\* The first commit of a project is always the one of its new: an action
\* that starts on a project without commits and is not new creates none.
C16_NewLeavesOneCommit ==
    /\ (Started /\ Last.verb = "new" /\ Completed(Last)) =>
          LET p == Last.project IN
          /\ Last.n0 = 0 /\ Len(commits[p]) = 1
          /\ Exists(commits[p][1].tree)
          /\ commits[p][1].tree.gitignore = <<{"dist"}>>
          /\ HoldsAllOf(commits[p][1].tree, wt[p])
          /\ staged[p] = commits[p][1].tree
          /\ repo[p].init /\ repo[p].email /\ repo[p].name
          /\ log[Len(log)].kind = "outcome"
          /\ log[Len(log)].project = p /\ log[Len(log)].command = Last.command
          /\ log[Len(log)].text = CommitId(p, 1) /\ log[Len(log)].text # NA
    /\ (Started /\ Last.verb # "new" /\ Last.n0 = 0) =>
          commits[Last.project] = <<>>
    /\ \A p \in Projects :
          commits[p] # <<>> =>
              \E i \in 1..Len(hist) :
                  /\ hist[i].verb = "new" /\ hist[i].project = p
                  /\ hist[i].n0 = 0
                  /\ commits[p][1].message = hist[i].command

\* new has completed on a project: one commit, the tree clean
C16_Witness ==
    /\ Started /\ Last.verb = "new" /\ Completed(Last)
    /\ Len(commits[Last.project]) = 1
    /\ wt[Last.project].gitignore # <<>>
    /\ log[Len(log)].text = CommitId(Last.project, 1)

----------------------------------------------------------------------------
(* Commits and the records of the log.                                     *)

\* the outcome records of a project that carry a commit id
IdRecords(p) ==
    {i \in 1..Len(log) :
        log[i].kind = "outcome" /\ log[i].project = p /\ log[i].text # NA}

\* each record with a commit id carries the id HEAD had when it was written:
\* the k-th such record of a project, the id of the project's k-th commit
IdsAreHeads ==
    \A p \in Projects : \A i \in IdRecords(p) :
        log[i].text = CommitId(p, Cardinality({j \in IdRecords(p) : j <= i}))

\* the outcome of a completed action is a commit id exactly when the action
\* created a commit
IdIffCommitted ==
    (Started /\ Completed(Last) /\ Last.verb # "remove_lock") =>
        (log[Len(log)].text # NA <=> Committed(Last))

\* the commits a project has without a record: the one of an action that
\* git rev-parse aborted after its commit
Unrecorded(p) ==
    IF Started /\ Last.project = p /\ Last.failed = "rev-parse" THEN 1 ELSE 0

\* C17 as stated: in every reachable state every project has as many
\* commits as outcome records that are not N/A, a record carries a commit
\* id exactly when its action created a commit, and the id is that of HEAD
\* when the record was written.
C17_CommitsMatchRecords ==
    /\ \A p \in Projects : Len(commits[p]) = Cardinality(IdRecords(p))
    /\ IdsAreHeads
    /\ IdIffCommitted

\* C17: between lifecycle actions and when the run has ended, every project
\* has as many commits as outcome records that are not N/A, and one more
\* when the run was aborted by git rev-parse failing after a commit; a
\* record carries a commit id exactly when its action created a commit, and
\* the id is that of HEAD when the record was written.
C17_CommitsMatchRecordsUnlessAborted ==
    /\ \A p \in Projects :
           Len(commits[p]) = Cardinality(IdRecords(p)) + Unrecorded(p)
    /\ IdsAreHeads
    /\ IdIffCommitted

\* main has returned: lorito has more than one commit and as many records
\* with an id, and records with N/A besides
C17_Witness ==
    /\ status = "done"
    /\ Len(commits[LORITO_PATH]) >= 3
    /\ Cardinality(IdRecords(LORITO_PATH)) = Len(commits[LORITO_PATH])
    /\ \E i \in 1..Len(log) :
           log[i].kind = "outcome" /\ log[i].project = LORITO_PATH /\ log[i].text = NA

----------------------------------------------------------------------------
(* The tree between the actions of main.                                   *)

\* C18: in main's scenario, after new and after every completed action of
\* _run, no project has an uncommitted modification or deletion of a tracked
\* file: the status query of _run would exit 0, the index is the head
\* commit, and every file of the head commit is in the tree as committed;
\* what differs from the head commit is untracked or ignored.
C18_TrackedFilesClean ==
    (status \in {"running", "done"}) =>
        \A p \in Projects :
            LET head == HeadTree(commits[p]) IN
            /\ git_diff_quiet(wt[p], staged[p]) = 0
            /\ staged[p] = head
            /\ \A f \in TextFiles : head[f] # <<>> => wt[p][f] = head[f]
            /\ (wt[p].dist # head.dist) => (Ignores(wt[p]) \/ head.dist = {})

\* main has returned: the artifacts lorito built are in its ignored dist,
\* uncommitted, and its tracked files are as committed
C18_Witness ==
    /\ status = "done"
    /\ wt[LORITO_PATH].dist # {} /\ Ignores(wt[LORITO_PATH])
    /\ HeadTree(commits[LORITO_PATH]).dist = {}
    /\ ~TrackedDirty(wt[LORITO_PATH], staged[LORITO_PATH])
    /\ ~HasUntracked(wt[LORITO_PATH], staged[LORITO_PATH])

----------------------------------------------------------------------------
(* build and publish under the recorder.                                   *)

\* C19: in main's scenario no build and no publish creates a commit, and
\* each one that completes records N/A, although the build has put a new
\* artifact, of the manifest's version, into dist (which is ignored) and the
\* publish has added the project's artifact to the index and left the
\* project's files alone.
C19_BuildAndPublishRecordNA ==
    (Started /\ Last.verb \in {"build", "publish"}) =>
        /\ Len(commits[Last.project]) = Last.n0
        /\ Completed(Last) =>
              /\ log[Len(log)].kind = "outcome"
              /\ log[Len(log)].command = Last.command
              /\ log[Len(log)].text = NA
              /\ (Last.verb = "build") =>
                    /\ Ignores(Last.wt1)
                    /\ Last.wt1.dist # Last.wt0.dist
                    /\ \E a \in Last.wt1.dist \ Last.wt0.dist :
                          a.name = Last.project /\ a.version = VersionAt(Last)
                    /\ registry = Last.reg0
              /\ (Last.verb = "publish") =>
                    /\ Last.wt1 = Last.wt0
                    /\ registry # Last.reg0 /\ Last.reg0 \subseteq registry
                    /\ \E a \in registry \ Last.reg0 :
                          a.name = Last.project /\ a.version = VersionAt(Last)

\* the second build of gatito has completed with N/A and a new artifact
C19_Witness ==
    /\ Started /\ IsCompleted("build", GATITO_PATH, Last)
    /\ VersionAt(Last) = 1
    /\ Cardinality(Last.wt1.dist) = Cardinality(Last.wt0.dist) + 1
    /\ log[Len(log)].text = NA
    /\ Len(commits[GATITO_PATH]) = Last.n0

====
